---- MODULE Spec2Model ----
(***************************************************************************)
(* Model of the MangaPark Provider (src/unnamed/part_000, current          *)
(* revision at lines 309-541; the same class is in src/old_provider.ts).   *)
(*                                                                         *)
(* JavaScript strings are sequences of one-character strings, so that the  *)
(* regular expressions, startsWith and the number formatting of the code   *)
(* are computed character by character.  JavaScript values are tagged      *)
(* records: [t |-> "str", s |-> chars], [t |-> "num", n |-> int],          *)
(* [t |-> "arr", a |-> seq], [t |-> "obj", o |-> function of field names], *)
(* [t |-> "null"], [t |-> "undefined"].                                    *)
(***************************************************************************)
EXTENDS Integers, Sequences, FiniteSets, TLC

VARIABLES
  pc,        \* position of the current invocation: "idle", "awaiting", "done"
  op,        \* the public operation invoked: "none", "search", ...
  arg,       \* the argument of the invocation (a JavaScript value)
  requests,  \* the POSTs issued through fetch during the invocation
  response,  \* the outcome of the network call, once it completed
  returned,  \* the array the invocation resolved with
  raised,    \* TRUE iff the invocation rejected (an error reached the caller)
  defaultHeaders, \* the properties of the object this.DEFAULT_HEADERS
  picked,    \* where the caller took the argument from: the server's chapter
             \* record of the findChapters entry whose id it passes on, or
             \* undefined for an argument of its own
  helper,    \* private helper under examination: "none", "buildUrl", ...
  input,     \* the helper's argument
  output     \* the helper's return value

vars == <<pc, op, arg, requests, response, returned, raised, defaultHeaders, picked,
          helper, input, output>>
callVars == <<pc, op, arg, requests, response, returned, raised, defaultHeaders, picked>>
helperVars == <<helper, input, output>>

----------------------------------------------------------------------------
(* Bounds of the model *)

MaxItems == 2       \* longest items / chapter list in a server response
MaxUrls == 3        \* longest urlList in a server response

----------------------------------------------------------------------------
(* JavaScript values *)

Null == [t |-> "null"]
Undefined == [t |-> "undefined"]
Str(s) == [t |-> "str", s |-> s]
Num(n) == [t |-> "num", n |-> n]
Arr(a) == [t |-> "arr", a |-> a]
Obj(o) == [t |-> "obj", o |-> o]

\* ToBoolean: null, undefined, "" and 0 are falsy; objects and arrays truthy.
Truthy(v) ==
  CASE v.t = "null" -> FALSE
    [] v.t = "undefined" -> FALSE
    [] v.t = "str" -> v.s # <<>>
    [] v.t = "num" -> v.n # 0
    [] OTHER -> TRUE

\* a || b
Or(a, b) == IF Truthy(a) THEN a ELSE b

Nullish(v) == v.t \in {"null", "undefined"}

\* v.k for a value that is not null or undefined (a missing property, and
\* any named property of a string, number or array that JSON gave, is
\* undefined).
Prop(v, k) == IF v.t = "obj" /\ k \in DOMAIN v.o THEN v.o[k] ELSE Undefined

\* v?.k
OptProp(v, k) == IF Nullish(v) THEN Undefined ELSE Prop(v, k)

\* Completion records: a normal completion with a value, or a throw.
Ok(v) == [threw |-> FALSE, value |-> v]
Throw == [threw |-> TRUE]

----------------------------------------------------------------------------
(* Characters *)

Digits == {"0", "1", "2", "3", "4", "5", "6", "7", "8", "9"}
Whitespace == {" ", "\t"}
UpperCase == <<"A", "B", "C", "H", "L", "N", "O", "P", "R", "S", "T", "U", "V", "E">>
LowerCase == <<"a", "b", "c", "h", "l", "n", "o", "p", "r", "s", "t", "u", "v", "e">>

\* Case folding of the i flag, for the letters the patterns contain.
Lower(c) ==
  IF \E i \in 1..Len(UpperCase) : UpperCase[i] = c
  THEN LowerCase[CHOOSE i \in 1..Len(UpperCase) : UpperCase[i] = c]
  ELSE c

LowerStr(s) == [i \in 1..Len(s) |-> Lower(s[i])]

\* String.prototype.startsWith (case-sensitive).
StartsWith(s, p) == Len(s) >= Len(p) /\ SubSeq(s, 1, Len(p)) = p

\* A literal of a pattern with the i flag matches s at position i.
MatchesAtI(s, i, p) ==
  /\ i + Len(p) - 1 <= Len(s)
  /\ LowerStr(SubSeq(s, i, i + Len(p) - 1)) = LowerStr(p)

\* Length of the longest run of characters of class C starting at position i.
RECURSIVE RunLen(_, _, _)
RunLen(s, i, C) ==
  IF i <= Len(s) /\ s[i] \in C THEN 1 + RunLen(s, i + 1, C) ELSE 0

\* Length of the longest run of characters outside class C starting at i.
RECURSIVE RunLenNot(_, _, _)
RunLenNot(s, i, C) ==
  IF i <= Len(s) /\ s[i] \notin C THEN 1 + RunLenNot(s, i + 1, C) ELSE 0

Drop(s, n) == SubSeq(s, n + 1, Len(s))

baseUrl == <<"h", "t", "t", "p", "s", ":", "/", "/", "m", "a", "n", "g", "a", "p", "a", "r", "k", ".", "i", "o">>
apiUrl == baseUrl \o <<"/", "a", "p", "o", "/">>

sVol == <<"V", "o", "l", ".">>
sCh == <<"C", "h", ".">>
sChapter == <<"C", "h", "a", "p", "t", "e", "r">>
sBonus == <<"B", "o", "n", "u", "s">>
sChapterBonus == sChapter \o <<" ">> \o sBonus
sHttp == <<"h", "t", "t", "p">>
sUnknown == <<"U", "n", "k", "n", "o", "w", "n">>

\* The object DEFAULT_HEADERS is initialised with.  The field is readonly,
\* the object is not frozen: every user of the field sees the properties the
\* one object has at that moment.
DEFAULT_HEADERS ==
  Obj([ContentType |-> Str(<<"a", "p", "p", "l", "i", "c", "a", "t", "i", "o", "n", "/", "j", "s", "o", "n">>),
       Referer |-> Str(baseUrl)])

\* A reference to the object of this.DEFAULT_HEADERS, as a value held by
\* another object.
HeadersRef == [t |-> "ref", r |-> "DEFAULT_HEADERS"]

----------------------------------------------------------------------------
(* buildUrl *)

\* Mutant: the origin is put in front of every path without a scheme.
buildUrl_AlwaysPrefix(path) ==
  IF ~Truthy(path) THEN Ok(Str(<<>>))
  ELSE IF path.t # "str" THEN Throw
  ELSE IF StartsWith(path.s, sHttp) THEN Ok(path)
  ELSE Ok(Str(baseUrl \o path.s))

\* buildUrl(path), as a completion: path.startsWith throws a TypeError when
\* path is a truthy value that is not a string.
buildUrl(path) ==
  IF ~Truthy(path) THEN Ok(Str(<<>>))
  ELSE IF path.t # "str" THEN Throw
  ELSE IF StartsWith(path.s, sHttp) THEN Ok(path)
  ELSE IF StartsWith(path.s, <<"/">>) THEN Ok(Str(baseUrl \o path.s))
  ELSE Ok(path)

----------------------------------------------------------------------------
(* parseChapterNumber *)

\* dname.replace(/^Vol\.\s*\S+\s+/i, ''): "Vol." at the start, the longest
\* run of white space, a non-empty longest run of non-white-space and a
\* non-empty longest run of white space are removed; \s and \S being
\* complementary, backtracking finds no other match.
StripVolume(s) ==
  IF ~MatchesAtI(s, 1, sVol) THEN s
  ELSE LET a == RunLen(s, 5, Whitespace)
           b == RunLenNot(s, 5 + a, Whitespace)
           c == RunLen(s, 5 + a + b, Whitespace)
       IN IF b >= 1 /\ c >= 1 THEN Drop(s, 4 + a + b + c) ELSE s

\* cleaned.match(/^Chapter\s+Bonus/i)
MatchesBonus(s) ==
  /\ MatchesAtI(s, 1, sChapter)
  /\ LET w == RunLen(s, 8, Whitespace)
     IN w >= 1 /\ MatchesAtI(s, 8 + w, sBonus)

\* Length of the keyword of (?:Ch\.|Chapter) that matches at position i, or 0.
KeywordLen(s, i) ==
  IF MatchesAtI(s, i, sCh) THEN 3
  ELSE IF MatchesAtI(s, i, sChapter) THEN 7
  ELSE 0

\* Position of the first digit of the capture group when
\* /(?:Ch\.|Chapter)\s*(\d+(?:\.\d+)?)/i matches at position i, or 0.
DigitsStart(s, i) ==
  LET k == KeywordLen(s, i)
      p == i + k + RunLen(s, i + k, Whitespace)
  IN IF k > 0 /\ RunLen(s, p, Digits) >= 1 THEN p ELSE 0

\* Leftmost position at which the pattern matches, or 0 when it does not.
ChapterMatchPos(s) ==
  IF \E i \in 1..Len(s) : DigitsStart(s, i) > 0
  THEN CHOOSE i \in 1..Len(s) :
         /\ DigitsStart(s, i) > 0
         /\ \A j \in 1..(i - 1) : DigitsStart(s, j) = 0
  ELSE 0

\* chapterMatch[1] as [int |-> digits, frac |-> digits], for a match at i.
ChapterCapture(s, i) ==
  LET p == DigitsStart(s, i)
      d == RunLen(s, p, Digits)
      f == IF p + d <= Len(s) /\ s[p + d] = "."
           THEN RunLen(s, p + d + 1, Digits) ELSE 0
  IN [int |-> SubSeq(s, p, p + d - 1),
      frac |-> IF f >= 1 THEN SubSeq(s, p + d + 1, p + d + f) ELSE <<>>]

DigitChars == <<"0", "1", "2", "3", "4", "5", "6", "7", "8", "9">>

\* Decimal digits of a natural number.
RECURSIVE NatToStr(_)
NatToStr(n) ==
  IF n < 10 THEN <<DigitChars[n + 1]>>
  ELSE NatToStr(n \div 10) \o <<DigitChars[(n % 10) + 1]>>

Zeros(n) == [i \in 1..n |-> "0"]

\* Number of "0" characters at the end of s.
RECURSIVE TrailingZeros(_)
TrailingZeros(s) ==
  IF s # <<>> /\ s[Len(s)] = "0" THEN 1 + TrailingZeros(SubSeq(s, 1, Len(s) - 1))
  ELSE 0

\* parseFloat(c).toString() for a capture c = int[.frac] (ECMAScript
\* Number::toString, radix 10): with sig the k significant digits of the
\* value and the value equal to 0.sig * 10^n, the result is positional for
\* -6 < n <= 21 and exponential otherwise.  The significant digits of the
\* nearest double are those of the text as long as there are at most 15 of
\* them, which holds for every capture the model draws.
ParseFloatToString(c) ==
  LET all == c.int \o c.frac
      lead == RunLen(all, 1, {"0"})
  IN IF lead = Len(all) THEN <<"0">>
     ELSE LET sig == SubSeq(all, lead + 1, Len(all) - TrailingZeros(all))
              k == Len(sig)
              n == Len(c.int) - lead
          IN IF k <= n /\ n <= 21 THEN sig \o Zeros(n - k)
             ELSE IF 0 < n /\ n <= 21
               THEN SubSeq(sig, 1, n) \o <<".">> \o SubSeq(sig, n + 1, k)
             ELSE IF -6 < n /\ n <= 0
               THEN <<"0", ".">> \o Zeros(-n) \o sig
             ELSE LET e == IF n - 1 < 0 THEN <<"-">> \o NatToStr(1 - n)
                                        ELSE <<"+">> \o NatToStr(n - 1)
                      m == IF k = 1 THEN sig
                           ELSE <<sig[1], ".">> \o SubSeq(sig, 2, k)
                  IN m \o <<"e">> \o e

\* Mutant: the fallback returns the string left after the volume prefix
\* was removed.
parseChapterNumber_FallbackCleaned(dname) ==
  IF ~Truthy(dname) THEN Ok(Str(<<>>))
  ELSE IF dname.t # "str" THEN Throw
  ELSE LET cleaned == StripVolume(dname.s)
           i == ChapterMatchPos(cleaned)
       IN IF MatchesBonus(cleaned) THEN Ok(Str(sChapterBonus))
          ELSE IF i > 0 THEN Ok(Str(ParseFloatToString(ChapterCapture(cleaned, i))))
          ELSE Ok(Str(cleaned))

\* parseChapterNumber(dname), as a completion: dname.replace throws a
\* TypeError when dname is a truthy value that is not a string.
parseChapterNumber(dname) ==
  IF ~Truthy(dname) THEN Ok(Str(<<>>))
  ELSE IF dname.t # "str" THEN Throw
  ELSE LET cleaned == StripVolume(dname.s)
           i == ChapterMatchPos(cleaned)
       IN IF MatchesBonus(cleaned) THEN Ok(Str(sChapterBonus))
          ELSE IF i > 0 THEN Ok(Str(ParseFloatToString(ChapterCapture(cleaned, i))))
          ELSE Ok(dname)

----------------------------------------------------------------------------
(* The private helpers on their own: the argument is drawn in the initial  *)
(* state and one step applies the helper to it.                            *)

VolumePrefixes ==
  {<<>>,
   <<"V", "o", "l", ".", "0", "2", " ">>,
   <<"v", "o", "l", ".", " ", "T", "B", "D", " ", " ">>,
   <<"V", "o", "l", ".", "1">>}

Leads ==
  {<<>>,
   <<"E", "p", " ">>}

Keywords ==
  {<<"C", "h", ".">>,
   <<"C", "h", "a", "p", "t", "e", "r">>,
   <<"c", "H", "A", "P", "T", "E", "R">>,
   <<"c", "h", ".">>,
   <<"C", "h", "a", "p">>,
   <<"O", "m", "a", "k", "e">>,
   <<"C", "h", "a", "p", "t", "e", "r", " ", "B", "o", "n", "u", "s">>,
   <<"c", "h", "a", "p", "t", "e", "r", "\t", "B", "O", "N", "U", "S">>,
   <<"C", "h", "a", "p", "t", "e", "r", "B", "o", "n", "u", "s">>}

Gaps ==
  {<<>>,
   <<" ">>,
   <<" ", "\t">>}

Numbers ==
  {<<>>,
   <<"3">>,
   <<"0", "0", "3">>,
   <<"1", ".", "5", "0">>,
   <<"0">>,
   <<"0", "0", ".", "0">>,
   <<"1", "0">>,
   <<"1", "2", ".">>,
   <<"0", "0", "7", ".", "2", "5", "0">>,
   <<"0", ".", "0", "0", "0", "0", "0", "1">>,
   <<"0", ".", "0", "0", "0", "0", "0", "0", "1">>,
   <<"0", ".", "0", "0", "0", "0", "0", "0", "1", "2">>,
   <<"1", "0", "0", "0", "0", "0", "0", "0", "0", "0", "0", "0", "0", "0", "0", "0", "0", "0", "0", "0", "0", "0">>}

Tails ==
  {<<>>,
   <<" ", "C", "h", ".", "9">>}

Paths ==
  {<<>>,
   <<"/", "c", ".", "j", "p", "g">>,
   <<"/">>,
   <<"h", "t", "t", "p", "s", ":", "/", "/", "x", "/", "y", ".", "p", "n", "g">>,
   <<"h", "t", "t", "p">>,
   <<"h", "t", "t">>,
   <<"c", ".", "j", "p", "g">>,
   <<"/", "/", "c", "d", "n", "/", "a", ".", "p", "n", "g">>,
   <<"H", "T", "T", "P", ":", "/", "/", "X">>}

\* Display names: [Vol. prefix][lead][keyword][gap][number][tail].
DnameInputs ==
  {v \o l \o k \o g \o n \o x :
     v \in VolumePrefixes, l \in Leads, k \in Keywords, g \in Gaps,
     n \in Numbers, x \in Tails}

HelperInputs ==
  {Str(s) : s \in DnameInputs \cup Paths} \cup {Undefined, Null, Num(5)}

Idle ==
  /\ pc = "idle"
  /\ op = "none"
  /\ arg = Undefined
  /\ requests = <<>>
  /\ response = Undefined
  /\ returned = Undefined
  /\ raised = FALSE
  /\ defaultHeaders = DEFAULT_HEADERS
  /\ picked = Undefined

InitHelpers ==
  /\ Idle
  /\ helper = "none"
  /\ input \in HelperInputs
  /\ output = Undefined

BuildUrl ==
  /\ helper = "none"
  /\ helper' = "buildUrl"
  /\ output' = buildUrl(input)
  /\ UNCHANGED <<input, callVars>>

ParseChapterNumber ==
  /\ helper = "none"
  /\ helper' = "parseChapterNumber"
  /\ output' = parseChapterNumber(input)
  /\ UNCHANGED <<input, callVars>>

NextHelpers == BuildUrl \/ ParseChapterNumber

SpecHelpers == InitHelpers /\ [][NextHelpers]_vars

----------------------------------------------------------------------------
(* The network boundary *)

sFoo == <<"F", "o", "o">>
sBar == <<"B", "a", "r">>
sId123 == <<"1", "2", "3">>
sId77 == <<"7", "7">>
sPath456 == <<"/", "t", "i", "t", "l", "e", "/", "4", "5", "6">>
sCoverRel == <<"/", "c", ".", "j", "p", "g">>
sCoverAbs == <<"h", "t", "t", "p", "s", ":", "/", "/", "x", "/", "y", ".", "p", "n", "g">>
sCoverBare == <<"c", ".", "j", "p", "g">>
sUrlA == <<"h", "t", "t", "p", "s", ":", "/", "/", "i", "/", "a", ".", "p", "n", "g">>
sUrlB == <<"/", "b", ".", "p", "n", "g">>
sUrlC == <<"c", ".", "p", "n", "g">>
sChapterId == <<"3", "3", "5", "5", "6", "6">>
sMangaId == <<"3", "0", "0", "6", "8">>
sDnameV == <<"V", "o", "l", ".", "0", "2", " ", "C", "h", "a", "p", "t", "e", "r", " ", "0", "0", "3">>
sDname10 == <<"C", "h", ".", "1", "0">>
sDname2 == <<"C", "h", "a", "p", "t", "e", "r", " ", "2">>
sOmake == <<"O", "m", "a", "k", "e">>
sTitleA == <<"T", "h", "e", " ", "S", "t", "a", "r", "t">>
sChapPath == <<"/", "t", "i", "t", "l", "e", "/", "3", "0", "0", "6", "8", "/", "3", "3", "5", "5", "6", "6">>
sGroup == <<"S", "c", "a", "n", "s">>
sSrc == <<"S", "r", "c">>

\* The fetch call of graphqlRequest: one POST to apiUrl.  JSON.stringify
\* leaves out the properties of variables whose value is undefined.
Post(query, variables) ==
  [url |-> apiUrl, method |-> "POST", headers |-> defaultHeaders,
   body |-> [query |-> query,
             variables |-> [k \in {f \in DOMAIN variables : variables[f] # Undefined}
                              |-> variables[k]]]]

\* Mutant: the POST is issued a second time.
graphqlFetch_Twice(query, variables) ==
  <<Post(query, variables), Post(query, variables)>>

\* The fetch calls graphqlRequest makes before it awaits the response.
graphqlFetch(query, variables) == <<Post(query, variables)>>

\* Outcomes of the network call: fetch rejects, or resolves with a status
\* and a body that response.json() parses or fails to parse.
NetworkError == [kind |-> "neterr"]
HttpResponse(status, parses, json) ==
  [kind |-> "http", status |-> status, parses |-> parses, json |-> json]

\* response.ok
ResponseOk(r) == r.status >= 200 /\ r.status <= 299

\* What graphqlRequest completes with once the network call is over.
graphqlRequest(r) ==
  IF r.kind = "neterr" THEN Throw
  ELSE IF ~ResponseOk(r) THEN Throw
  ELSE IF ~r.parses THEN Throw
  ELSE Ok(r.json)

\* Mutant: the catch block lets the error through.
CatchAll_Rethrow(c) == c

\* try { ... } catch (error) { console.error(...); return [] }
CatchAll(c) == IF c.threw THEN Ok(Arr(<<>>)) ELSE c

----------------------------------------------------------------------------
(* search *)

\* Last non-empty segment of a path split at "/" (the path has one).
LastSegment(s) ==
  LET e == CHOOSE i \in 1..Len(s) :
             s[i] # "/" /\ \A k \in (i + 1)..Len(s) : s[k] = "/"
      b == IF \E i \in 1..e : s[i] = "/"
           THEN CHOOSE i \in 1..e : s[i] = "/" /\ \A k \in (i + 1)..e : s[k] # "/"
           ELSE 0
  IN SubSeq(s, b + 1, e)

\* Mutant: the id is the last segment of urlPath when there is one.
SearchResultOf_PathId(data) ==
  LET built == buildUrl(Or(Prop(data, "urlCoverOri"), Str(<<>>)))
      urlPath == Prop(data, "urlPath")
      mangaId == IF urlPath.t = "str" /\ \E i \in 1..Len(urlPath.s) : urlPath.s[i] # "/"
                 THEN Str(LastSegment(urlPath.s))
                 ELSE Prop(data, "id")
  IN IF built.threw THEN Throw
     ELSE Ok(Obj([id |-> mangaId,
                  title |-> Or(Prop(data, "name"), Str(sUnknown)),
                  synonyms |-> Or(Prop(data, "altNames"), Undefined),
                  image |-> Or(built.value, Undefined),
                  year |-> Undefined]))

\* The object pushed for one item whose data is truthy, as a completion.
SearchResultOf(data) ==
  LET built == buildUrl(Or(Prop(data, "urlCoverOri"), Str(<<>>)))
  IN IF built.threw THEN Throw
     ELSE Ok(Obj([id |-> Prop(data, "id"),
                  title |-> Or(Prop(data, "name"), Str(sUnknown)),
                  synonyms |-> Or(Prop(data, "altNames"), Undefined),
                  image |-> Or(built.value, Undefined),
                  year |-> Undefined]))

\* for (const item of items) { ... } from the i-th item on, results so far
\* in acc: item.data throws on a null item, an item without data is skipped.
RECURSIVE SearchLoop(_, _, _)
SearchLoop(items, i, acc) ==
  IF i > Len(items) THEN Ok(Arr(acc))
  ELSE IF Nullish(items[i]) THEN Throw
  ELSE LET data == Prop(items[i], "data")
       IN IF ~Truthy(data) THEN SearchLoop(items, i + 1, acc)
          ELSE LET r == SearchResultOf(data)
               IN IF r.threw THEN Throw
                  ELSE SearchLoop(items, i + 1, Append(acc, r.value))

\* The elements for...of visits: those of an array, the characters of a
\* string; a number or a plain object is not iterable.
Iterate(v) ==
  CASE v.t = "arr" -> Ok(v.a)
    [] v.t = "str" -> Ok([i \in 1..Len(v.s) |-> Str(<<v.s[i]>>)])
    [] OTHER -> Throw

\* The try block of search after the await, given the network outcome.
SearchBody(r) ==
  LET result == graphqlRequest(r)
  IN IF result.threw THEN Throw
     ELSE LET items == Or(OptProp(OptProp(OptProp(result.value, "data"),
                                          "get_searchComic"), "items"),
                          Arr(<<>>))
              it == Iterate(items)
          IN IF it.threw THEN Throw ELSE SearchLoop(it.value, 1, <<>>)

----------------------------------------------------------------------------
(* findChapters *)

\* new Date(timestamp * 1000).toISOString() for a truthy timestamp.  The
\* text is kept as the instant it denotes, [t |-> "date", ms |-> ...]; a
\* timestamp that is not a number gives an invalid date, for which
\* toISOString throws a RangeError (the model's text timestamps are not
\* numeric).
ToISOString(timestamp) ==
  IF timestamp.t = "num" THEN Ok([t |-> "date", ms |-> timestamp.n * 1000])
  ELSE Throw

\* Mutant: the id of an entry is the record's urlPath, "#i" and the server's
\* id, which findChapterPages sends on as it is.
ChapterDetailsOf_PathHashId(data, len) ==
  LET timestamp == Or(Prop(data, "dateModify"), Prop(data, "dateCreate"))
      updatedAt == IF Truthy(timestamp) THEN ToISOString(timestamp)
                   ELSE Ok(Undefined)
      scanlator == Or(Or(OptProp(OptProp(Prop(data, "userNode"), "data"), "name"),
                         Prop(data, "srcTitle")),
                      Undefined)
      urlPath == Or(Prop(data, "urlPath"), Str(<<>>))
      url == buildUrl(urlPath)
      chapter == parseChapterNumber(Prop(data, "dname"))
  IN IF updatedAt.threw \/ url.threw \/ chapter.threw THEN Throw
     ELSE Ok(Obj([id |-> Str(urlPath.s \o <<"#", "i">> \o Prop(data, "id").s),
                  url |-> url.value,
                  title |-> Prop(data, "title"),
                  chapter |-> chapter.value,
                  index |-> Num(len),
                  language |-> Undefined,
                  scanlator |-> scanlator,
                  updatedAt |-> updatedAt.value]))

\* The object pushed for one record whose data is truthy, at output
\* position len (chapters.length), as a completion.
ChapterDetailsOf(data, len) ==
  LET timestamp == Or(Prop(data, "dateModify"), Prop(data, "dateCreate"))
      updatedAt == IF Truthy(timestamp) THEN ToISOString(timestamp)
                   ELSE Ok(Undefined)
      scanlator == Or(Or(OptProp(OptProp(Prop(data, "userNode"), "data"), "name"),
                         Prop(data, "srcTitle")),
                      Undefined)
      url == buildUrl(Or(Prop(data, "urlPath"), Str(<<>>)))
      chapter == parseChapterNumber(Prop(data, "dname"))
  IN IF updatedAt.threw \/ url.threw \/ chapter.threw THEN Throw
     ELSE Ok(Obj([id |-> Prop(data, "id"),
                  url |-> url.value,
                  title |-> Prop(data, "title"),
                  chapter |-> chapter.value,
                  index |-> Num(len),
                  language |-> Undefined,
                  scanlator |-> scanlator,
                  updatedAt |-> updatedAt.value]))

\* Mutant: the index of an entry is the position of its record in the list
\* received, not the number of entries pushed so far.
RECURSIVE ChaptersLoop_ListIndex(_, _, _)
ChaptersLoop_ListIndex(list, i, acc) ==
  IF i > Len(list) THEN Ok(Arr(acc))
  ELSE IF Nullish(list[i]) THEN Throw
  ELSE LET data == Prop(list[i], "data")
       IN IF ~Truthy(data) THEN ChaptersLoop_ListIndex(list, i + 1, acc)
          ELSE LET r == ChapterDetailsOf(data, i - 1)
               IN IF r.threw THEN Throw
                  ELSE ChaptersLoop_ListIndex(list, i + 1, Append(acc, r.value))

\* The entries for the duplicates dups of a record from the i-th on, pushed
\* after acc.
RECURSIVE DupLoop(_, _, _)
DupLoop(dups, i, acc) ==
  IF i > Len(dups) THEN Ok(acc)
  ELSE IF Nullish(dups[i]) THEN Throw
  ELSE LET data == Prop(dups[i], "data")
       IN IF ~Truthy(data) THEN DupLoop(dups, i + 1, acc)
          ELSE LET r == ChapterDetailsOf(data, Len(acc))
               IN IF r.threw THEN Throw
                  ELSE DupLoop(dups, i + 1, Append(acc, r.value))

\* Mutant: the duplicate chapters nested in a record are pushed as entries
\* of their own after the record's entry.
RECURSIVE ChaptersLoop_ExpandDups(_, _, _)
ChaptersLoop_ExpandDups(list, i, acc) ==
  IF i > Len(list) THEN Ok(Arr(acc))
  ELSE IF Nullish(list[i]) THEN Throw
  ELSE LET data == Prop(list[i], "data")
       IN IF ~Truthy(data) THEN ChaptersLoop_ExpandDups(list, i + 1, acc)
          ELSE LET r == ChapterDetailsOf(data, Len(acc))
                   dups == Prop(data, "dupChapters")
               IN IF r.threw THEN Throw
                  ELSE IF dups.t # "arr"
                    THEN ChaptersLoop_ExpandDups(list, i + 1, Append(acc, r.value))
                  ELSE LET d == DupLoop(dups.a, 1, Append(acc, r.value))
                       IN IF d.threw THEN Throw
                          ELSE ChaptersLoop_ExpandDups(list, i + 1, d.value)

\* for (const chapterData of chapterList) { ... } from the i-th record on.
RECURSIVE ChaptersLoop(_, _, _)
ChaptersLoop(list, i, acc) ==
  IF i > Len(list) THEN Ok(Arr(acc))
  ELSE IF Nullish(list[i]) THEN Throw
  ELSE LET data == Prop(list[i], "data")
       IN IF ~Truthy(data) THEN ChaptersLoop(list, i + 1, acc)
          ELSE LET r == ChapterDetailsOf(data, Len(acc))
               IN IF r.threw THEN Throw
                  ELSE ChaptersLoop(list, i + 1, Append(acc, r.value))

\* The try block of findChapters after the await.
FindChaptersBody(r) ==
  LET result == graphqlRequest(r)
  IN IF result.threw THEN Throw
     ELSE LET chapterList == Or(OptProp(OptProp(result.value, "data"),
                                        "get_comicChapterList"),
                                Arr(<<>>))
              it == Iterate(chapterList)
          IN IF it.threw THEN Throw ELSE ChaptersLoop(it.value, 1, <<>>)

----------------------------------------------------------------------------
(* findChapterPages *)

\* Mutant: page indices counted from 1.
MapPages_OneBased(urlList) ==
  IF urlList.t # "arr" THEN Throw
  ELSE Ok(Arr([i \in 1..Len(urlList.a) |->
                 Obj([url |-> urlList.a[i],
                      index |-> Num(i),
                      headers |-> HeadersRef])]))

\* urlList.map((url, index) => ({ url, index, headers })): map exists on
\* arrays only, so any other truthy urlList throws a TypeError.
MapPages(urlList) ==
  IF urlList.t # "arr" THEN Throw
  ELSE Ok(Arr([i \in 1..Len(urlList.a) |->
                 Obj([url |-> urlList.a[i],
                      index |-> Num(i - 1),
                      headers |-> HeadersRef])]))

\* The try block of findChapterPages after the await.
FindChapterPagesBody(r) ==
  LET result == graphqlRequest(r)
  IN IF result.threw THEN Throw
     ELSE MapPages(Or(OptProp(OptProp(OptProp(OptProp(OptProp(result.value,
                        "data"), "get_chapterNode"), "data"), "imageFile"),
                        "urlList"),
                      Arr(<<>>)))

----------------------------------------------------------------------------
(* What the server may answer *)

\* Sequences of at most n elements of S.
SeqUpTo(S, n) == UNION {[1..k -> S] : k \in 0..n}

SearchData ==
  {Obj([id |-> Str(sId123), name |-> Str(sFoo), urlCoverOri |-> Str(sCoverRel)]),
   Obj([id |-> Str(sId123), name |-> Str(sFoo), urlPath |-> Str(sPath456),
        urlCoverOri |-> Str(sCoverAbs), altNames |-> Arr(<<Str(sBar)>>)]),
   Obj([id |-> Str(sId77), urlPath |-> Str(sPath456), urlCoverOri |-> Str(sCoverBare)]),
   Obj([id |-> Str(sId77), name |-> Str(<<>>), urlCoverOri |-> Str(<<>>)]),
   Obj([id |-> Str(sId77), name |-> Null, urlCoverOri |-> Null]),
   Obj([name |-> Str(sFoo), urlPath |-> Str(sPath456)]),
   Obj([id |-> Str(sId123), name |-> Str(sBar), urlCoverOri |-> Num(5)])}

SearchItems ==
  {Obj([data |-> d]) : d \in SearchData} \cup {Null, Obj([data |-> Null])}

SearchEnvelope(items) ==
  Obj([data |-> Obj([get_searchComic |-> Obj([items |-> items])])])

ChapterData ==
  {Obj([id |-> Str(sChapterId), dname |-> Str(sDnameV), title |-> Str(sTitleA),
        urlPath |-> Str(sChapPath), dateModify |-> Num(200), dateCreate |-> Num(100),
        userNode |-> Obj([data |-> Obj([name |-> Str(sGroup)])]),
        srcTitle |-> Str(sSrc)]),
   Obj([id |-> Str(sId77), dname |-> Str(sDname10), title |-> Null,
        urlPath |-> Str(sPath456), dateCreate |-> Num(100), srcTitle |-> Str(sSrc),
        userNode |-> Null]),
   Obj([id |-> Str(sId123), dname |-> Str(sDname2)]),
   Obj([id |-> Str(sId123), dname |-> Str(sOmake), title |-> Str(<<>>),
        dupChapters |-> Arr(<<Obj([data |-> Obj([id |-> Str(sId77),
                                                  dname |-> Str(sOmake)])])>>)]),
   Obj([id |-> Str(sId77), dname |-> Str(sDname2), dateModify |-> Str(sFoo)]),
   Obj([id |-> Str(sId77), dname |-> Num(5)])}

ChapterRecords ==
  {Obj([data |-> d]) : d \in ChapterData} \cup {Null, Obj([data |-> Null])}

ChaptersEnvelope(list) == Obj([data |-> Obj([get_comicChapterList |-> list])])

PageUrls == {Str(sUrlA), Str(sUrlB), Str(sUrlC), Null}

PagesEnvelope(urlList) ==
  Obj([data |-> Obj([get_chapterNode |->
    Obj([data |-> Obj([imageFile |-> Obj([urlList |-> urlList])])])])])

\* Values of another shape than the list an operation expects.
NotLists == {Null, Num(5), Str(sFoo), Obj([length |-> Num(1)])}

\* Bodies in which the path to the list is absent or cut short.
Truncated ==
  {Null, Obj([errors |-> Arr(<<>>)]), Obj([data |-> Null]), Obj([data |-> Str(sFoo)])}

SearchBodies ==
  Truncated \cup {SearchEnvelope(v) : v \in NotLists}
    \cup {SearchEnvelope(Arr(a)) : a \in SeqUpTo(SearchItems, MaxItems)}

ChaptersBodies ==
  Truncated \cup {ChaptersEnvelope(v) : v \in NotLists}
    \cup {ChaptersEnvelope(Arr(a)) : a \in SeqUpTo(ChapterRecords, MaxItems)}

PagesBodies ==
  Truncated \cup {PagesEnvelope(v) : v \in NotLists}
    \cup {PagesEnvelope(Arr(a)) : a \in SeqUpTo(PageUrls, MaxUrls)}

\* A record or item of a server list that is processed, not skipped.
HasData(rec) == ~Nullish(rec) /\ Truthy(Prop(rec, "data"))

\* Number of records of list a that have data.
DataCount(a) == Cardinality({i \in 1..Len(a) : HasData(a[i])})

\* Position in a of its j-th record that has data.
DataPos(a, j) ==
  CHOOSE i \in 1..Len(a) :
    HasData(a[i]) /\ Cardinality({k \in 1..i : HasData(a[k])}) = j

\* Network outcomes for an operation whose well-formed bodies are Bodies;
\* good is a body that would give a non-empty result had the call succeeded.
Outcomes(Bodies, good) ==
  {NetworkError, HttpResponse(500, TRUE, good), HttpResponse(404, FALSE, Undefined),
   HttpResponse(200, FALSE, Undefined)}
    \cup {HttpResponse(200, TRUE, b) : b \in Bodies}

SearchOutcomes ==
  Outcomes(SearchBodies,
           SearchEnvelope(Arr(<<Obj([data |-> Obj([id |-> Str(sId123)])])>>)))

ChaptersOutcomes ==
  Outcomes(ChaptersBodies,
           ChaptersEnvelope(Arr(<<Obj([data |-> Obj([id |-> Str(sId123)])])>>)))

PagesOutcomes == Outcomes(PagesBodies, PagesEnvelope(Arr(<<Str(sUrlA)>>)))

QueryOptions == {Obj([query |-> Str(sFoo)]), Obj([query |-> Str(<<>>)]), Obj([page |-> Num(2)])}
MangaIds == {Str(sMangaId), Str(sPath456)}
ChapterIds == {Str(sChapterId), Str(sId77)}

----------------------------------------------------------------------------
(* The public operations.  Each runs up to its await, where the POST is    *)
(* in flight, and resumes with the outcome of the network call.            *)

Init ==
  /\ Idle
  /\ helper = "none"
  /\ input = Undefined
  /\ output = Undefined

\* A call runs up to its await: the request is in flight.
Invoke(name, a, fetched) ==
  /\ pc' = "awaiting"
  /\ op' = name
  /\ arg' = a
  /\ requests' = fetched
  /\ response' = Undefined
  /\ returned' = Undefined
  /\ raised' = FALSE
  /\ UNCHANGED <<defaultHeaders, helperVars>>

\* The call resumes with outcome r and settles with completion c.
Settle(r, c) ==
  /\ pc' = "done"
  /\ response' = r
  /\ returned' = IF c.threw THEN Undefined ELSE c.value
  /\ raised' = c.threw
  /\ UNCHANGED <<op, arg, requests, defaultHeaders, picked, helperVars>>

Search(opts) ==
  /\ pc \in {"idle", "done"}
  /\ Invoke("search", opts,
            graphqlFetch("SEARCH_QUERY",
                         [select |-> Obj([page |-> Num(1), size |-> Num(24),
                                          word |-> Or(Prop(opts, "query"), Null)])]))
  /\ picked' = Undefined

SearchReturns(r) ==
  /\ pc = "awaiting"
  /\ op = "search"
  /\ Settle(r, CatchAll(SearchBody(r)))

FindChapters(mangaId) ==
  /\ pc \in {"idle", "done"}
  /\ Invoke("findChapters", mangaId,
            graphqlFetch("CHAPTERS_QUERY", [id |-> mangaId]))
  /\ picked' = Undefined

FindChaptersReturns(r) ==
  /\ pc = "awaiting"
  /\ op = "findChapters"
  /\ Settle(r, CatchAll(FindChaptersBody(r)))

FindChapterPages(chapterId) ==
  /\ pc \in {"idle", "done"}
  /\ Invoke("findChapterPages", chapterId,
            graphqlFetch("PAGES_QUERY", [id |-> chapterId]))
  /\ picked' = Undefined

\* findChapterPages called with the id of the j-th entry that findChapters
\* has just returned.
FindChapterPagesOfChapter(j) ==
  /\ pc = "done"
  /\ op = "findChapters"
  /\ returned.t = "arr"
  /\ j \in 1..Len(returned.a)
  /\ returned.a[j].o.id.t = "str"
  /\ Invoke("findChapterPages", returned.a[j].o.id,
            graphqlFetch("PAGES_QUERY", [id |-> returned.a[j].o.id]))
  /\ picked' =
       LET list == Prop(Prop(response.json, "data"), "get_comicChapterList").a
       IN [t |-> "chapter", data |-> Prop(list[DataPos(list, j)], "data")]

FindChapterPagesReturns(r) ==
  /\ pc = "awaiting"
  /\ op = "findChapterPages"
  /\ Settle(r, CatchAll(FindChapterPagesBody(r)))

\* What the caller may assign to a property of the headers of a page entry
\* it was given.
HeaderWrites ==
  {[name |-> "Referer", value |-> Str(sCoverAbs)],
   [name |-> "Cookie", value |-> Str(sFoo)]}

\* The caller, owner of the pages findChapterPages returned, assigns
\* pages[i].headers[w.name] = w.value; the headers of every page entry are
\* the object of this.DEFAULT_HEADERS.
CallerWritesHeader(i, w) ==
  /\ pc = "done"
  /\ op = "findChapterPages"
  /\ returned.t = "arr"
  /\ i \in 1..Len(returned.a)
  /\ returned.a[i].o.headers = HeadersRef
  /\ defaultHeaders' =
       Obj([k \in DOMAIN defaultHeaders.o \cup {w.name} |->
              IF k = w.name THEN w.value ELSE defaultHeaders.o[k]])
  /\ UNCHANGED <<pc, op, arg, requests, response, returned, raised, picked, helperVars>>

Next ==
  \/ \E opts \in QueryOptions : Search(opts)
  \/ \E r \in SearchOutcomes : SearchReturns(r)
  \/ \E mangaId \in MangaIds : FindChapters(mangaId)
  \/ \E r \in ChaptersOutcomes : FindChaptersReturns(r)
  \/ \E chapterId \in ChapterIds : FindChapterPages(chapterId)
  \/ \E j \in 1..MaxItems : FindChapterPagesOfChapter(j)
  \/ \E r \in PagesOutcomes : FindChapterPagesReturns(r)
  \/ \E i \in 1..MaxUrls, w \in HeaderWrites : CallerWritesHeader(i, w)

Spec == Init /\ [][Next]_vars

----------------------------------------------------------------------------
(* Properties of the public operations (specification Spec) *)

\* The network call failed: fetch rejected, the status is not a success,
\* or the body does not parse.
CallFailed ==
  \/ response.kind = "neterr"
  \/ /\ response.kind = "http"
     /\ (response.status < 200 \/ response.status > 299 \/ ~response.parses)

\* C1: whatever the outcome of the network call, search, findChapters and
\* findChapterPages settle by returning an array and never raise; after a
\* network error, a non-success status or a body that does not parse the
\* array is empty.
C1_NeverRaises ==
  pc = "done" =>
    /\ ~raised
    /\ returned.t = "arr"
    /\ CallFailed => returned = Arr(<<>>)

\* findChapters got status 500 with a body that holds a chapter, and
\* returned the empty array.
C1_Witness ==
  /\ pc = "done"
  /\ op = "findChapters"
  /\ response.kind = "http"
  /\ response.status = 500
  /\ response.parses
  /\ returned = Arr(<<>>)
  /\ ~raised

\* C2: for a server urlList of length n, findChapterPages returns n entries,
\* the i-th (from 0) with index i and the i-th URL of the server's list.
C2_PagesInServerOrder ==
  \A a \in SeqUpTo(PageUrls, MaxUrls) :
    (/\ pc = "done"
     /\ op = "findChapterPages"
     /\ response = HttpResponse(200, TRUE, PagesEnvelope(Arr(a))))
    => /\ returned.t = "arr"
       /\ Len(returned.a) = Len(a)
       /\ \A i \in 1..Len(a) :
            /\ returned.a[i].o.index = Num(i - 1)
            /\ returned.a[i].o.url = a[i]

\* findChapterPages returned the pages of a list of two or more URLs that
\* are not all the same.
C2_Witness ==
  /\ pc = "done"
  /\ op = "findChapterPages"
  /\ returned.t = "arr"
  /\ Len(returned.a) >= 2
  /\ returned.a[1].o.url # returned.a[2].o.url
  /\ returned.a[2].o.index = Num(1)

\* findChapters settled normally on the chapter list a of the server.
ChaptersDone(a) ==
  /\ pc = "done"
  /\ op = "findChapters"
  /\ response = HttpResponse(200, TRUE, ChaptersEnvelope(Arr(a)))

\* C3 as stated: the entries of findChapters are in the order received,
\* and the index of each entry is the position of its record in the list
\* received.
C3_IndexIsListPosition ==
  \A a \in SeqUpTo(ChapterRecords, MaxItems) :
    ChaptersDone(a) =>
      /\ Len(returned.a) \in {0, DataCount(a)}
      /\ \A j \in 1..Len(returned.a) :
           /\ returned.a[j].o.id = Prop(Prop(a[DataPos(a, j)], "data"), "id")
           /\ returned.a[j].o.index = Num(DataPos(a, j) - 1)

\* C3 amended: the entries of findChapters are in the order received (the
\* j-th entry comes from the j-th record that has data, whatever the
\* chapter numbers), and the index of each entry is its position in the
\* output, that is the position of its record among the records received
\* that have data.
C3_IndexIsOutputPosition ==
  \A a \in SeqUpTo(ChapterRecords, MaxItems) :
    ChaptersDone(a) =>
      /\ Len(returned.a) \in {0, DataCount(a)}
      /\ \A j \in 1..Len(returned.a) :
           /\ returned.a[j].o.id = Prop(Prop(a[DataPos(a, j)], "data"), "id")
           /\ returned.a[j].o.title = Prop(Prop(a[DataPos(a, j)], "data"), "title")
           /\ returned.a[j].o.index = Num(j - 1)

\* findChapters returned Ch.10 before Chapter 2, as received, with indices
\* 0 and 1.
C3_Witness ==
  /\ pc = "done"
  /\ op = "findChapters"
  /\ returned.t = "arr"
  /\ Len(returned.a) >= 2
  /\ returned.a[1].o.chapter = Str(<<"1", "0">>)
  /\ returned.a[1].o.index = Num(0)
  /\ returned.a[2].o.chapter = Str(<<"2">>)
  /\ returned.a[2].o.index = Num(1)

----------------------------------------------------------------------------
(* Properties of the helpers (specification SpecHelpers) *)

\* The decimal numeral int[.frac] without the leading zeros of its integer
\* part and the trailing zeros of its fractional part.
CanonicalDecimal(c) ==
  LET lead == RunLen(c.int, 1, {"0"})
      ip == IF lead = Len(c.int) THEN <<"0">> ELSE Drop(c.int, lead)
      fp == SubSeq(c.frac, 1, Len(c.frac) - TrailingZeros(c.frac))
  IN IF fp = <<>> THEN ip ELSE ip \o <<".">> \o fp

\* parseChapterNumber was applied to a string whose remainder after the
\* volume prefix is not a Chapter Bonus label and contains Ch.<n> or
\* Chapter <n>.
ParsedNumbered ==
  /\ helper = "parseChapterNumber"
  /\ input.t = "str"
  /\ ~MatchesBonus(StripVolume(input.s))
  /\ ChapterMatchPos(StripVolume(input.s)) > 0

\* C4: for a display string that, after an optional volume prefix,
\* contains Ch.<n> or Chapter <n> and is not a Chapter Bonus label,
\* parseChapterNumber returns n as a decimal numeral without leading zeros
\* in the integer part and without trailing zeros in the fractional part.
C4_CanonicalDecimal ==
  ParsedNumbered =>
    LET cleaned == StripVolume(input.s)
    IN output = Ok(Str(CanonicalDecimal(ChapterCapture(cleaned, ChapterMatchPos(cleaned)))))

\* C5: parseChapterNumber returns "Chapter Bonus" when the string left
\* after the volume prefix starts with Chapter, white space and Bonus in
\* any case, and returns its argument unchanged, volume prefix included,
\* when neither that pattern nor Ch./Chapter followed by a number matches.
C5_BonusAndFallback ==
  (helper = "parseChapterNumber" /\ input.t = "str") =>
    LET cleaned == StripVolume(input.s)
    IN /\ MatchesBonus(cleaned) => output = Ok(Str(sChapterBonus))
       /\ (~MatchesBonus(cleaned) /\ ChapterMatchPos(cleaned) = 0)
            => output = Ok(input)

\* parseChapterNumber fell back to its argument although a volume prefix
\* had been removed from it.
C5_Witness ==
  /\ helper = "parseChapterNumber"
  /\ input.t = "str"
  /\ StripVolume(input.s) # input.s
  /\ ~MatchesBonus(StripVolume(input.s))
  /\ ChapterMatchPos(StripVolume(input.s)) = 0
  /\ output = Ok(input)

\* C6: buildUrl maps "" to "", returns an argument that begins with http
\* unchanged, returns https://mangapark.io followed by the argument when
\* the argument begins with "/", and returns any other argument unchanged.
C6_BuildUrlCases ==
  (helper = "buildUrl" /\ input.t = "str") =>
    /\ output.threw = FALSE
    /\ input.s = <<>> => output.value = Str(<<>>)
    /\ (Len(input.s) >= 4 /\ SubSeq(input.s, 1, 4) = <<"h", "t", "t", "p">>)
         => output.value = input
    /\ (input.s # <<>> /\ input.s[1] = "/")
         => output.value = Str(baseUrl \o input.s)
    /\ (/\ input.s # <<>>
        /\ input.s[1] # "/"
        /\ ~(Len(input.s) >= 4 /\ SubSeq(input.s, 1, 4) = <<"h", "t", "t", "p">>))
         => output.value = input

\* buildUrl returned unchanged an argument that begins neither with http
\* nor with "/".
C6_Witness ==
  /\ helper = "buildUrl"
  /\ input = Str(sCoverBare)
  /\ output = Ok(Str(sCoverBare))

----------------------------------------------------------------------------
(* Properties of the entries of search and findChapters (Spec) *)

\* search settled normally on the items a of the server.
SearchDone(a) ==
  /\ pc = "done"
  /\ op = "search"
  /\ response = HttpResponse(200, TRUE, SearchEnvelope(Arr(a)))

\* The image the claim expects for a cover value.
ExpectedImage(cover) ==
  IF cover.t = "str" /\ cover.s # <<>> /\ cover.s[1] = "/"
    THEN Str(baseUrl \o cover.s)
  ELSE IF cover.t = "str" /\ StartsWith(cover.s, sHttp) THEN cover
  ELSE Undefined

\* C7: the image of every search result is an absolute URL or absent: a
\* cover that starts with "/" gets the origin in front, a cover that
\* begins with a scheme is passed through, any other cover (empty,
\* missing, or starting with neither) gives no image.
C7_ImageAbsoluteOrAbsent ==
  \A a \in SeqUpTo(SearchItems, MaxItems) :
    SearchDone(a) =>
      /\ Len(returned.a) \in {0, DataCount(a)}
      /\ \A j \in 1..Len(returned.a) :
           returned.a[j].o.image
             = ExpectedImage(Prop(Prop(a[DataPos(a, j)], "data"), "urlCoverOri"))

\* C8: the title of a findChapters entry is the title of its record when
\* the record has one, and the record's dname otherwise.
C8_TitleFallsBackToDname ==
  \A a \in SeqUpTo(ChapterRecords, MaxItems) :
    ChaptersDone(a) =>
      \A j \in 1..Len(returned.a) :
        LET data == Prop(a[DataPos(a, j)], "data")
        IN returned.a[j].o.title
             = IF Truthy(Prop(data, "title")) THEN Prop(data, "title")
               ELSE Prop(data, "dname")

\* C9: an invocation of search, findChapters or findChapterPages has
\* issued exactly one request, a POST to the API endpoint, from its await
\* on and still exactly that one when it has returned, whatever the outcome.
C9_ExactlyOneRequest ==
  /\ pc = "idle" => requests = <<>>
  /\ pc \in {"awaiting", "done"} =>
       /\ Len(requests) = 1
       /\ requests[1].method = "POST"
       /\ requests[1].url = apiUrl

\* findChapterPages has returned after a network error, one request sent.
C9_Witness ==
  /\ pc = "done"
  /\ op = "findChapterPages"
  /\ response = NetworkError
  /\ Len(requests) = 1
  /\ requests[1].body.query = "PAGES_QUERY"

\* C10: the id of a search result is the explicit id of its item, also
\* when the item has a urlPath whose last segment is another identifier,
\* and an item without name gets the title "Unknown".
C10_ExplicitIdAndUnknownTitle ==
  \A a \in SeqUpTo(SearchItems, MaxItems) :
    SearchDone(a) =>
      /\ Len(returned.a) \in {0, DataCount(a)}
      /\ \A j \in 1..Len(returned.a) :
           LET data == Prop(a[DataPos(a, j)], "data")
           IN /\ Prop(data, "id") # Undefined
                   => returned.a[j].o.id = Prop(data, "id")
              /\ Nullish(Prop(data, "name"))
                   => returned.a[j].o.title = Str(sUnknown)
              /\ Prop(data, "name").t = "str" /\ Prop(data, "name").s # <<>>
                   => returned.a[j].o.title = Prop(data, "name")

\* search returned id 123 for an item with urlPath /title/456, and the
\* title Unknown for an item without name.
C10_Witness ==
  /\ pc = "done"
  /\ op = "search"
  /\ returned.t = "arr"
  /\ Len(returned.a) >= 2
  /\ returned.a[1].o.id = Str(sId123)
  /\ returned.a[2].o.title = Str(sUnknown)
  /\ \E a \in SeqUpTo(SearchItems, MaxItems) :
       /\ SearchDone(a)
       /\ Len(a) >= 2
       /\ Prop(Prop(a[1], "data"), "urlPath") = Str(sPath456)
       /\ Prop(Prop(a[2], "data"), "name") = Undefined

----------------------------------------------------------------------------
(* Properties of calls that follow one another (Spec) *)

\* C11: the id of every findChapters entry is the id the server gave for
\* its chapter record, not one derived from the URL path, and when the
\* caller passes that id to findChapterPages the id variable of the page
\* query is the server's id of that record.
C11_ChapterIdRoundTrip ==
  /\ \A a \in SeqUpTo(ChapterRecords, MaxItems) :
       ChaptersDone(a) =>
         \A j \in 1..Len(returned.a) :
           returned.a[j].o.id = Prop(Prop(a[DataPos(a, j)], "data"), "id")
  /\ (op = "findChapterPages" /\ picked.t = "chapter") =>
       /\ arg = Prop(picked.data, "id")
       /\ Len(requests) >= 1
       /\ requests[1].body.query = "PAGES_QUERY"
       /\ requests[1].body.variables.id = Prop(picked.data, "id")

\* findChapterPages has returned, called with the id of an entry of
\* findChapters whose record has a urlPath that ends in another segment.
C11_Witness ==
  /\ pc = "done"
  /\ op = "findChapterPages"
  /\ picked.t = "chapter"
  /\ Prop(picked.data, "id") = Str(sId77)
  /\ Prop(picked.data, "urlPath") = Str(sPath456)
  /\ requests[1].body.variables.id = Str(sId77)

\* The request an invocation sends when it depends on nothing but the
\* operation and its argument.
RequestOf(name, a) ==
  [url |-> apiUrl,
   method |-> "POST",
   headers |-> DEFAULT_HEADERS,
   body |-> CASE name = "search" ->
                   [query |-> "SEARCH_QUERY",
                    variables |-> [select |-> Obj([page |-> Num(1), size |-> Num(24),
                                                   word |-> Or(Prop(a, "query"), Null)])]]
              [] name = "findChapters" ->
                   [query |-> "CHAPTERS_QUERY", variables |-> [id |-> a]]
              [] name = "findChapterPages" ->
                   [query |-> "PAGES_QUERY", variables |-> [id |-> a]]]

\* C12: the operations are stateless and independent: the request a call
\* sends depends only on the call's argument, not on earlier calls, their
\* failures, or what the caller did with earlier results, the headers
\* objects of returned page entries included.
C12_RequestDependsOnArgumentOnly ==
  pc \in {"awaiting", "done"} => requests = <<RequestOf(op, arg)>>

\* Absent, null, or of the type named.
AbsentOr(v, type) == Nullish(v) \/ v.t = type

\* A record that findChapters processes or skips without a throw: it is not
\* null, and when it has data its dname and urlPath are texts and its
\* timestamps numbers, where present.
Processable(rec) ==
  /\ ~Nullish(rec)
  /\ HasData(rec) =>
       LET data == Prop(rec, "data")
       IN /\ AbsentOr(Prop(data, "dname"), "str")
          /\ AbsentOr(Prop(data, "urlPath"), "str")
          /\ AbsentOr(Prop(data, "dateModify"), "num")
          /\ AbsentOr(Prop(data, "dateCreate"), "num")

\* C13: for every chapter list, also one with records without data, the
\* indices of the entries findChapters returns are 0, 1, ..., m-1 in output
\* order, m the number of entries: one per record that has data, none for
\* a duplicate chapter nested in a record.
C13_IndicesContiguous ==
  \A a \in SeqUpTo(ChapterRecords, MaxItems) :
    ChaptersDone(a) =>
      /\ \A j \in 1..Len(returned.a) : returned.a[j].o.index = Num(j - 1)
      /\ Len(returned.a) <= DataCount(a)
      /\ (\A i \in 1..Len(a) : Processable(a[i]))
           => Len(returned.a) = DataCount(a)

\* findChapters skipped a record without data and returned one entry, with
\* index 0, for a record that holds a nested duplicate chapter.
C13_Witness ==
  /\ pc = "done"
  /\ op = "findChapters"
  /\ returned.t = "arr"
  /\ Len(returned.a) = 1
  /\ returned.a[1].o.index = Num(0)
  /\ \E a \in SeqUpTo(ChapterRecords, MaxItems) :
       /\ ChaptersDone(a)
       /\ Len(a) = 2
       /\ a[1] = Obj([data |-> Null])
       /\ Prop(Prop(a[2], "data"), "dupChapters").t = "arr"

====
